---- MODULE Spec2Model ----
(***************************************************************************)
(* Order workflow of the photography shop backend.                         *)
(*                                                                         *)
(* The handlers of the order controller (createOrder, updateOrderStatus,   *)
(* createPaymentIntent, handleStripeWebhook) act on two collections, the   *)
(* products and the orders.  createOrder awaits the store once per read    *)
(* (Product.findById), once per write (product.save) and once for          *)
(* Order.create; between two awaits other requests run, so each await is   *)
(* one step here.  The other handlers write values that do not depend on   *)
(* what they read (orders are never deleted), so each is one step.         *)
(*                                                                         *)
(* Amounts are held in tenths of a currency unit, so that the 10% tax of   *)
(* a price given in whole units is an exact integer.                       *)
(***************************************************************************)
EXTENDS Integers, Sequences, FiniteSets, TLC

\* ---------------------------------------------------------------- bounds
NReq == 2          \* createOrder requests
MaxItems == 2      \* lines of one createOrder request
MaxBookings == 2   \* bookings ever created
MaxCalls == 2      \* cancellation calls counted per calendar event
MaxQty == 2                          \* pieces of the product in a cart
MaxUsers == 2      \* users ever registered

\* ------------------------------------------------------------ input sets
Reqs == 1..NReq
ProductIds == {1, 2}
AbsentProduct == 0                   \* an id that names no product
ProductRefs == ProductIds \cup {AbsentProduct}
Quantities == -1..2
Items == [product : ProductRefs, quantity : Quantities]
Users == {"ann", "bob"}
Requester(r) == IF r % 2 = 1 THEN "ann" ELSE "bob"   \* who sends request r
Admins == {"root"}                   \* the accounts whose role is admin
Accounts == Users \cup Admins
RoleOf(u) == IF u \in Admins THEN "admin" ELSE "user"
Names == {"print", "canvas"}
Prices == {500, 600}                 \* 50 and 60 currency units, in tenths
SeedStocks == {1, 5}
BodyTotals == {0, 7}                 \* a total the client puts in the body
Bodies == [products : {"missing", "empty", "some"}, shippingAddress : BOOLEAN]
OrderIds == 0..(NReq + 1)            \* 0: no id given; NReq + 1 never names an order
IntentIds == {"pi_1", "pi_2"}        \* ids the payment gateway hands out
GatewayAnswers == IntentIds \cup {"fail"}

OrderStatuses == {"pending", "processing", "shipped", "delivered", "cancelled"}
PaymentStatuses == {"pending", "completed", "failed", "refunded"}
StatusInputs == OrderStatuses \cup {"missing", "refunded"}
EventTypes == {"payment_intent.succeeded", "payment_intent.payment_failed"}
NameEdits == Names \cup {"keep"}
PriceEdits == Prices \cup {0}        \* 0: the edit leaves the price alone

\* ---- inputs of register and login
Emails == {"ann@x.io", "bob@x.io"}
EmailInputs == Emails \cup {"undefined", "not an email"}
Passwords == {"secret1", "secret2"}
PasswordInputs == Passwords \cup {"undefined", "short"}
Roles == {"user", "admin"}
RoleInputs == Roles \cup {"undefined", "Admin", "owner"}
RegisterBodies ==
  [name : {"undefined", "Ann", "Bob"}, email : EmailInputs,
   password : PasswordInputs, role : RoleInputs]

\* ---- inputs of the booking handlers
BookingIds == 1..(MaxBookings + 1)   \* MaxBookings + 1 never names a booking
SessionTypeEnum ==
  {"portrait", "wedding", "event", "family", "commercial", "other"}
BookingStatuses == {"pending", "confirmed", "completed", "cancelled"}
BookingStatusInputs == BookingStatuses \cup {"missing", "archived"}
EventIds == {"ev1"}                  \* uuids of events of the calendar service
NoEvent == "none"                    \* a booking made without the calendar
SessionTypeInputs == {"undefined", "portrait", "wedding", "picnic"}
LocationInputs == {"undefined", "studio", "beach"}
\* bodies of createBooking; rest stands for date, timeSlot and payment
BookingBodies ==
  [sessionType : SessionTypeInputs, location : LocationInputs,
   rest : {"undefined", "given"}, calendlyEventId : EventIds \cup {NoEvent}]
\* bodies of updateBooking
BookingEdits ==
  [sessionType : SessionTypeInputs, location : LocationInputs,
   date : {"undefined"}, notes : {"undefined"}]
\* date of a body: none, the empty string, one that parses, one that does not
DateInputs == {"undefined", "", "d2", "soon"}
NotesInputs == {"undefined", "", "n2"}
NoUser == "nobody"                   \* no account is found
PhotographerIds == Accounts \cup {NoUser, "missing"}
\* invitee.created payloads: whom the invitee email resolves to, the name
\* of the event type, the location of the event, the uuid of the event
InviteeUsers == Accounts \cup {NoUser}
EventTypeNames == {"portrait", "Portrait Session"}
EventLocations == {"undefined", "studio"}
CalendlyEvents == {"invitee.created", "invitee.canceled", "routing_form.created"}

VARIABLES
  products,   \* the Product collection: id -> [name, price, stock]
  seeded,     \* the Product collection as it was when the server started
  orders,     \* the Order collection, in insertion order; the index is the id
  req,        \* the createOrder requests, each with its position and locals
  resp,       \* what the last handler other than createOrder answered
  calls,      \* the external service that handler called: "none", "stripe"
              \* or "calendly"
  bookings,   \* the Booking collection, in creation order; the id is the index
  breq,       \* the updateBooking or cancelBooking request between two awaits
  cancellations,  \* cancellation calls received by the calendar, per event
  calendlyKey,    \* CALENDLY_API_KEY is configured
  users,      \* the User collection, in creation order
  issued,     \* whose token the last answer of register or login carries
  listed,     \* what the last read handler sent: to whom, which documents,
              \* and the pagination links
  browser     \* the page in the browser: localStorage, the closures that
              \* initializeCart made, the checkout button, requests sent

bookVars == <<bookings, breq, cancellations, calendlyKey>>
orderVars == <<products, seeded, orders, req>>
authVars == <<users, issued>>
vars == <<products, seeded, orders, req, resp, calls,
          bookings, breq, cancellations, calendlyKey, users, issued, listed,
          browser>>

\* -------------------------------------------------------- pure functions
\* the quantity of product p on a list of order lines
RECURSIVE QuantityOn(_, _)
QuantityOn(lines, p) ==
  IF lines = <<>> THEN 0
  ELSE (IF lines[1].product = p THEN lines[1].quantity ELSE 0) + QuantityOn(Tail(lines), p)

\* the sum of price times quantity over a list of order lines
RECURSIVE LinesSum(_)
LinesSum(lines) ==
  IF lines = <<>> THEN 0
  ELSE lines[1].price * lines[1].quantity + LinesSum(Tail(lines))

InsufficientStockOffByOne(stock, quantity) == stock < quantity - 1

\* the stock check of one line
InsufficientStock(stock, quantity) == stock < quantity

OrderLineTotal(id, product, quantity) ==
  [product |-> id, name |-> product.name, price |-> product.price * quantity,
   quantity |-> quantity]

\* the line pushed on orderItems: the product as read
OrderLine(id, product, quantity) ==
  [product |-> id, name |-> product.name, price |-> product.price,
   quantity |-> quantity]

\* the stock written back by product.save()
DecrementedStock(stock, quantity) == stock - quantity

\* 10% of the subtotal
TaxOf(subtotal) == subtotal \div 10

ShippingOfAtLeast(subtotal) == IF subtotal >= 1000 THEN 0 ELSE 100

\* free shipping over 100 currency units, else the flat fee of 10
ShippingOf(subtotal) == IF subtotal > 1000 THEN 0 ELSE 100

TotalOfBody(subtotal, tax, shipping, bodyTotal) == bodyTotal

\* the total of the order; a total in the request body is not looked at
TotalOf(subtotal, tax, shipping, bodyTotal) == subtotal + tax + shipping

\* the document handed to Order.create, schema defaults filled in
OrderDoc(user, orderItems, subtotal, bodyTotal) ==
  [user |-> user,
   products |-> orderItems,
   subtotal |-> subtotal,
   tax |-> TaxOf(subtotal),
   shipping |-> ShippingOf(subtotal),
   total |-> TotalOf(subtotal, TaxOf(subtotal), ShippingOf(subtotal), bodyTotal),
   status |-> "pending",
   paymentInfo |-> [type |-> "stripe", transactionId |-> "none", status |-> "pending"]]

\* the validators of the order schema
ValidOrder(doc) ==
  /\ \A i \in 1..Len(doc.products) : doc.products[i].quantity >= 1
  /\ doc.subtotal >= 0
  /\ doc.tax >= 0
  /\ doc.shipping >= 0
  /\ doc.total >= 0
  /\ doc.status \in OrderStatuses
  /\ doc.paymentInfo.status \in PaymentStatuses

StockRolledBack(prods, orderItems) ==
  [p \in DOMAIN prods |->
     [prods[p] EXCEPT !.stock = @ + QuantityOn(orderItems, p)]]

\* the products after createOrder gave up on a line: nothing is written
StockAfterFailure(prods, orderItems) == prods

\* the status updateOrderStatus assigns
AssignedStatus(current, status) == status

PaidOrderStatusOnly(order) == [order EXCEPT !.status = "processing"]

\* the order after the webhook handled a succeeded payment
PaidOrder(order) ==
  [order EXCEPT !.paymentInfo.status = "completed", !.status = "processing"]

\* the partial-field merge of a product update
MergedProduct(product, name, price) ==
  [product EXCEPT !.name = IF name = "keep" THEN @ ELSE name,
                  !.price = IF price = 0 THEN @ ELSE price]

IdleReq ==
  [pc |-> "idle", user |-> "ann",
   body |-> [products |-> "missing", shippingAddress |-> FALSE],
   item |-> [product |-> 0, quantity |-> 0],
   orderItems |-> <<>>, subtotal |-> 0, stock |-> 0,
   code |-> "none", order |-> 0]

NoResp == "none"

\* no read handler has answered
NothingListed ==
  [to |-> "nobody", kind |-> "none", ids |-> {}, next |-> FALSE, prev |-> FALSE]

\* no page is open in a browser
NoPage ==
  [stored |-> 0, token |-> FALSE, carts |-> <<>>, disabled |-> FALSE,
   loaded |-> FALSE, checked |-> FALSE, sent |-> 0, waiting |-> {}]

\* nobody has registered, no token was issued and nothing was read
NoAccounts ==
  /\ users = <<>>
  /\ issued = "nobody"
  /\ listed = NothingListed
  /\ browser = NoPage

IdleBreq ==
  [pc |-> "idle", id |-> 0, user |-> NoUser,
   sessionType |-> "undefined", location |-> "undefined",
   date |-> "undefined", notes |-> "undefined"]

\* ------------------------------------------------------------------ Init
Init ==
  /\ products \in [ProductIds -> [name : {"print"}, price : Prices, stock : SeedStocks]]
  /\ products[1].price = 500
  /\ products[2].price = 600
  /\ seeded = products
  /\ orders = <<>>
  /\ req = [r \in Reqs |-> IdleReq]
  /\ resp = NoResp
  /\ calls = "none"
  /\ bookings = <<>>
  /\ breq = IdleBreq
  /\ cancellations = [e \in EventIds |-> 0]
  /\ calendlyKey = TRUE
  /\ NoAccounts

\* ------------------------------------------------------------ createOrder
RejectedBodyItemsOnly(body) == body.products \in {"missing", "empty"}

\* the two checks of the body that answer 400
RejectedBody(body) ==
  \/ body.products \in {"missing", "empty"}
  \/ ~body.shippingAddress

\* the request arrives; the body is validated
Begin(r, user, body) ==
  /\ req[r].pc = "idle"
  /\ IF RejectedBody(body)
       THEN req' = [req EXCEPT ![r].pc = "done", ![r].user = user, ![r].body = body,
                               ![r].code = "400"]
       ELSE req' = [req EXCEPT ![r].pc = "find", ![r].user = user, ![r].body = body]
  /\ UNCHANGED <<products, seeded, orders, resp, calls>>
  /\ UNCHANGED bookVars
  /\ UNCHANGED authVars
  /\ UNCHANGED listed
  /\ UNCHANGED browser

\* Product.findById answers for the next line; check, push, subtotal and the
\* decrement of the in-memory document follow without an await
FindProduct(r, item) ==
  /\ req[r].pc = "find"
  /\ IF item.product \notin ProductIds
       THEN /\ req' = [req EXCEPT ![r].pc = "done", ![r].item = item, ![r].code = "404"]
            /\ products' = StockAfterFailure(products, req[r].orderItems)
       ELSE IF InsufficientStock(products[item.product].stock, item.quantity)
       THEN /\ req' = [req EXCEPT ![r].pc = "done", ![r].item = item, ![r].code = "400"]
            /\ products' = StockAfterFailure(products, req[r].orderItems)
       ELSE /\ req' = [req EXCEPT
                 ![r].pc = "save",
                 ![r].orderItems = Append(@, OrderLine(item.product, products[item.product], item.quantity)),
                 ![r].subtotal = @ + products[item.product].price * item.quantity,
                 ![r].item = item,
                 ![r].stock = DecrementedStock(products[item.product].stock, item.quantity)]
            /\ UNCHANGED products
  /\ UNCHANGED <<seeded, orders, resp, calls>>
  /\ UNCHANGED bookVars
  /\ UNCHANGED authVars
  /\ UNCHANGED listed
  /\ UNCHANGED browser

\* product.save() writes the stock of the in-memory document when the
\* assignment changed it (a quantity of 0 leaves the path unmodified, and save
\* writes modified paths only); the loop then goes to the next line, or leaves
\* when the list is exhausted
SaveProduct(r, more) ==
  /\ req[r].pc = "save"
  /\ more => Len(req[r].orderItems) < MaxItems
  /\ IF req[r].item.quantity = 0
       THEN products' = products
       ELSE products' = [products EXCEPT ![req[r].item.product].stock = req[r].stock]
  /\ req' = [req EXCEPT ![r].pc = IF more THEN "find" ELSE "create"]
  /\ UNCHANGED <<seeded, orders, resp, calls>>
  /\ UNCHANGED bookVars
  /\ UNCHANGED authVars
  /\ UNCHANGED listed
  /\ UNCHANGED browser

\* Order.create validates and inserts
CreateOrderDoc(r, bodyTotal) ==
  /\ req[r].pc = "create"
  /\ LET doc == OrderDoc(req[r].user, req[r].orderItems, req[r].subtotal, bodyTotal)
     IN IF ValidOrder(doc)
          THEN /\ orders' = Append(orders, doc)
               /\ req' = [req EXCEPT ![r].pc = "done", ![r].code = "201",
                                     ![r].order = Len(orders) + 1]
          ELSE /\ orders' = orders
               /\ req' = [req EXCEPT ![r].pc = "done", ![r].code = "error"]
  /\ UNCHANGED <<products, seeded, resp, calls>>
  /\ UNCHANGED bookVars
  /\ UNCHANGED authVars
  /\ UNCHANGED listed
  /\ UNCHANGED browser

\* ------------------------------------------------------ updateOrderStatus
UpdateOrderStatus(id, status) ==
  /\ IF status = "missing"
       THEN /\ resp' = "400"
            /\ orders' = orders
       ELSE IF id \notin 1..Len(orders)
       THEN /\ resp' = "404"
            /\ orders' = orders
       ELSE LET doc == [orders[id] EXCEPT !.status = AssignedStatus(@, status)]
            IN IF ValidOrder(doc)
                 THEN /\ orders' = [orders EXCEPT ![id] = doc]
                      /\ resp' = "200"
                 ELSE /\ orders' = orders
                      /\ resp' = "error"
  /\ calls' = "none"
  /\ UNCHANGED <<products, seeded, req>>
  /\ UNCHANGED bookVars
  /\ UNCHANGED authVars
  /\ UNCHANGED listed
  /\ UNCHANGED browser

\* ---------------------------------------------------- createPaymentIntent
NotOwnerNorAdmin(order, requester) ==
  order.user # requester /\ RoleOf(requester) # "admin"

\* the requester is not the user of the order
NotOwner(order, requester) == order.user # requester

\* the gateway is called once the owner check has passed, and may fail
CreatePaymentIntent(orderId, requester, gateway) ==
  /\ IF orderId = 0
       THEN /\ resp' = "400"
            /\ orders' = orders
            /\ calls' = "none"
       ELSE IF orderId \notin 1..Len(orders)
       THEN /\ resp' = "404"
            /\ orders' = orders
            /\ calls' = "none"
       ELSE IF NotOwner(orders[orderId], requester)
       THEN /\ resp' = "401"
            /\ orders' = orders
            /\ calls' = "none"
       ELSE IF gateway = "fail"
       THEN /\ resp' = "error"
            /\ orders' = orders
            /\ calls' = "stripe"
       ELSE /\ orders' = [orders EXCEPT ![orderId].paymentInfo =
                            [type |-> "stripe", transactionId |-> gateway,
                             status |-> "pending"]]
            /\ resp' = "200"
            /\ calls' = "stripe"
  /\ UNCHANGED <<products, seeded, req>>
  /\ UNCHANGED bookVars
  /\ UNCHANGED authVars
  /\ UNCHANGED listed
  /\ UNCHANGED browser

\* ---------------------------------------------------- handleStripeWebhook
HandleStripeWebhookUnsigned(verified, type, orderId) ==
  /\ resp' = "200 received"
  /\ IF type = "payment_intent.succeeded" /\ orderId \in 1..Len(orders)
       THEN orders' = [orders EXCEPT ![orderId] = PaidOrder(@)]
       ELSE orders' = orders
  /\ calls' = "none"
  /\ UNCHANGED <<products, seeded, req>>
  /\ UNCHANGED bookVars
  /\ UNCHANGED authVars
  /\ UNCHANGED listed
  /\ UNCHANGED browser

\* constructEvent throws when the signature does not verify: the answer is
\* then the text "Webhook Error: ..." with status 400; an event that is
\* handled or ignored is answered {received: true}
HandleStripeWebhook(verified, type, orderId) ==
  /\ IF ~verified
       THEN /\ resp' = "400 Webhook Error"
            /\ orders' = orders
       ELSE /\ resp' = "200 received"
            /\ IF type = "payment_intent.succeeded" /\ orderId \in 1..Len(orders)
                 THEN orders' = [orders EXCEPT ![orderId] = PaidOrder(@)]
                 ELSE orders' = orders
  /\ calls' = "none"
  /\ UNCHANGED <<products, seeded, req>>
  /\ UNCHANGED bookVars
  /\ UNCHANGED authVars
  /\ UNCHANGED listed
  /\ UNCHANGED browser

\* ---------------------------------------------------------- updateProduct
UpdateProduct(id, name, price) ==
  /\ products' = [products EXCEPT ![id] = MergedProduct(@, name, price)]
  /\ UNCHANGED <<seeded, orders, req, resp, calls>>
  /\ UNCHANGED bookVars
  /\ UNCHANGED authVars
  /\ UNCHANGED listed
  /\ UNCHANGED browser

\* ========================================================= auth handlers
RegisteredRoleAsGiven(role) == role

\* the role register hands to User.create: admin is replaced by user
RegisteredRole(role) == IF role = "admin" THEN "user" ELSE role

\* what User.create stores; the schema defaults a missing role to user
UserDoc(body) ==
  [name |-> body.name, email |-> body.email, password |-> body.password,
   role |-> IF RegisteredRole(body.role) = "undefined"
              THEN "user" ELSE RegisteredRole(body.role)]

\* the schema: name, email and password are required, the email has the
\* form of an address and is unique, the password has six characters or
\* more, the role is of the enum
ValidUser(doc, us) ==
  /\ doc.name # "undefined"
  /\ doc.email \in Emails
  /\ \A i \in 1..Len(us) : us[i].email # doc.email
  /\ doc.password \in Passwords
  /\ doc.role \in Roles

\* --------------------------------------------------------------- register
Register(body) ==
  /\ Len(users) < MaxUsers
  /\ IF ValidUser(UserDoc(body), users)
       THEN /\ users' = Append(users, UserDoc(body))
            /\ resp' = "201"
            /\ issued' = body.email
       ELSE /\ users' = users
            /\ resp' = "error"
            /\ issued' = "nobody"
  /\ calls' = "none"
  /\ UNCHANGED orderVars
  /\ UNCHANGED bookVars
  /\ UNCHANGED listed
  /\ UNCHANGED browser

\* ------------------------------------------------------------------ login
FoundByEmail(us, email) == {i \in 1..Len(us) : us[i].email = email}

LoginAnswerRevealing(us, email, password) ==
  IF email = "undefined" \/ password = "undefined"
    THEN [resp |-> "400 Please provide an email and password",
          token |-> "nobody"]
    ELSE IF FoundByEmail(us, email) = {}
    THEN [resp |-> "404 User not found", token |-> "nobody"]
    ELSE IF \E i \in FoundByEmail(us, email) : us[i].password # password
    THEN [resp |-> "401 Invalid credentials", token |-> "nobody"]
    ELSE [resp |-> "200", token |-> email]

\* the answer of login and the account whose token it carries
LoginAnswer(us, email, password) ==
  IF email = "undefined" \/ password = "undefined"
    THEN [resp |-> "400 Please provide an email and password",
          token |-> "nobody"]
    ELSE IF FoundByEmail(us, email) = {}
    THEN [resp |-> "401 Invalid credentials", token |-> "nobody"]
    ELSE IF \E i \in FoundByEmail(us, email) : us[i].password # password
    THEN [resp |-> "401 Invalid credentials", token |-> "nobody"]
    ELSE [resp |-> "200", token |-> email]

Login(email, password) ==
  /\ resp' = LoginAnswer(users, email, password).resp
  /\ issued' = LoginAnswer(users, email, password).token
  /\ calls' = "none"
  /\ UNCHANGED users
  /\ UNCHANGED orderVars
  /\ UNCHANGED bookVars
  /\ UNCHANGED listed
  /\ UNCHANGED browser

\* ====================================================== booking handlers
\* what Booking.create stores; a new booking has no photographer
BookingDoc(client, sessionType, location, calendlyEventId) ==
  [client |-> client, photographer |-> NoUser, sessionType |-> sessionType,
   location |-> location, status |-> "pending",
   calendlyEventId |-> calendlyEventId, date |-> "d1", notes |-> "n1"]

\* the schema: sessionType and status are of their enums, location is required
ValidBooking(doc) ==
  /\ doc.sessionType \in SessionTypeEnum
  /\ doc.location # "undefined"
  /\ doc.status \in BookingStatuses

NoRequester(booking, requester) == requester = NoUser

\* the requester is neither the client of the booking nor an admin
NotClientNorAdmin(booking, requester) ==
  booking.client # requester /\ RoleOf(requester) # "admin"

FrozenWhenCompleted(booking, requester) ==
  booking.status = "completed" /\ RoleOf(requester) # "admin"

\* a confirmed or completed booking is closed to edits of a non-admin
Frozen(booking, requester) ==
  booking.status \in {"confirmed", "completed"} /\ RoleOf(requester) # "admin"

\* updateFields with the undefined keys filtered out, merged into the booking
EditedBooking(booking, sessionType, location) ==
  [booking EXCEPT
     !.sessionType = IF sessionType = "undefined" THEN @ ELSE sessionType,
     !.location = IF location = "undefined" THEN @ ELSE location]

\* req.body.date ? new Date(req.body.date) : undefined
DateOf(date) == IF date = "" THEN "undefined" ELSE date

EditedRestUnfiltered(booking, date, notes) ==
  [booking EXCEPT !.date = DateOf(date), !.notes = notes]

\* the date and the notes of updateFields, merged likewise
EditedRest(booking, date, notes) ==
  [booking EXCEPT
     !.date = IF DateOf(date) = "undefined" THEN @ ELSE DateOf(date),
     !.notes = IF notes = "undefined" THEN @ ELSE notes]

CancelAnswerPropagated(ok) == IF ok THEN "200" ELSE "error"

\* the failure of the calendar call is caught and logged: the answer is 200
CancelAnswer(ok) == "200"

NotPhotographerAbsentOnly(photographerId) == photographerId = NoUser

\* User.findById found nobody, or somebody whose role is not admin
NotPhotographer(photographerId) ==
  photographerId = NoUser \/ RoleOf(photographerId) # "admin"

\* ---------------------------------------------------------- createBooking
CreateBooking(requester, body) ==
  /\ Len(bookings) < MaxBookings
  /\ IF \/ body.sessionType = "undefined"
        \/ body.location = "undefined"
        \/ body.rest = "undefined"
       THEN /\ resp' = "400 Please provide all required booking details"
            /\ bookings' = bookings
       ELSE LET doc == BookingDoc(requester, body.sessionType, body.location,
                                  body.calendlyEventId)
            IN IF ValidBooking(doc)
                 THEN /\ bookings' = Append(bookings, doc)
                      /\ resp' = "201"
                 ELSE /\ bookings' = bookings
                      /\ resp' = "error"
  /\ calls' = "none"
  /\ UNCHANGED <<breq, cancellations, calendlyKey>>
  /\ UNCHANGED orderVars
  /\ UNCHANGED authVars
  /\ UNCHANGED listed
  /\ UNCHANGED browser

\* ---------------------------------------------------- updateBookingStatus
\* the route lets admins only through (authorize); the handler then assigns
\* the status of the body and saves
UpdateBookingStatus(id, requester, status) ==
  /\ IF RoleOf(requester) # "admin"
       THEN /\ resp' = "403"
            /\ bookings' = bookings
       ELSE IF status = "missing"
       THEN /\ resp' = "400 Please provide a status"
            /\ bookings' = bookings
       ELSE IF id \notin 1..Len(bookings)
       THEN /\ resp' = "404 Booking not found"
            /\ bookings' = bookings
       ELSE LET doc == [bookings[id] EXCEPT !.status = status]
            IN IF ValidBooking(doc)
                 THEN /\ bookings' = [bookings EXCEPT ![id] = doc]
                      /\ resp' = "200"
                 ELSE /\ bookings' = bookings
                      /\ resp' = "error"
  /\ calls' = "none"
  /\ UNCHANGED <<breq, cancellations, calendlyKey>>
  /\ UNCHANGED orderVars
  /\ UNCHANGED authVars
  /\ UNCHANGED listed
  /\ UNCHANGED browser

\* ----------------------------------------------------- assignPhotographer
AssignPhotographer(id, requester, photographerId) ==
  /\ IF RoleOf(requester) # "admin"
       THEN /\ resp' = "403"
            /\ bookings' = bookings
       ELSE IF photographerId = "missing"
       THEN /\ resp' = "400 Please provide a photographer ID"
            /\ bookings' = bookings
       ELSE IF NotPhotographer(photographerId)
       THEN /\ resp' = "404 Photographer not found"
            /\ bookings' = bookings
       ELSE IF id \notin 1..Len(bookings)
       THEN /\ resp' = "404 Booking not found"
            /\ bookings' = bookings
       ELSE /\ bookings' = [bookings EXCEPT ![id].photographer = photographerId]
            /\ resp' = "200"
  /\ calls' = "none"
  /\ UNCHANGED <<breq, cancellations, calendlyKey>>
  /\ UNCHANGED orderVars
  /\ UNCHANGED authVars
  /\ UNCHANGED listed
  /\ UNCHANGED browser

\* ---------------------------------------------------------- updateBooking
\* first await: Booking.findById and the checks on what it returned
UpdateBookingFind(id, requester, edit) ==
  /\ breq.pc = "idle"
  /\ IF id \notin 1..Len(bookings)
       THEN /\ resp' = "404 Booking not found"
            /\ calls' = "none"
            /\ breq' = breq
       ELSE IF NotClientNorAdmin(bookings[id], requester)
       THEN /\ resp' = "401 not authorized to update this booking"
            /\ calls' = "none"
            /\ breq' = breq
       ELSE IF Frozen(bookings[id], requester)
       THEN /\ resp' = "400 Cannot update a booking"
            /\ calls' = "none"
            /\ breq' = breq
       ELSE /\ breq' = [pc |-> "update", id |-> id, user |-> requester,
                        sessionType |-> edit.sessionType,
                        location |-> edit.location,
                        date |-> edit.date, notes |-> edit.notes]
            /\ UNCHANGED <<resp, calls>>
  /\ UNCHANGED <<bookings, cancellations, calendlyKey>>
  /\ UNCHANGED orderVars
  /\ UNCHANGED authVars
  /\ UNCHANGED listed
  /\ UNCHANGED browser

\* second await: Booking.findByIdAndUpdate with runValidators, which checks
\* the fields of the update against the schema and writes them, or throws
UpdateBookingWrite ==
  /\ breq.pc = "update"
  /\ IF /\ breq.sessionType \in SessionTypeEnum \cup {"undefined"}
        /\ DateOf(breq.date) # "soon"
       THEN /\ bookings' = [bookings EXCEPT ![breq.id] =
                              EditedRest(EditedBooking(@, breq.sessionType,
                                                       breq.location),
                                         breq.date, breq.notes)]
            /\ resp' = "200"
       ELSE /\ bookings' = bookings
            /\ resp' = "error"
  /\ calls' = "none"
  /\ breq' = IdleBreq
  /\ UNCHANGED <<cancellations, calendlyKey>>
  /\ UNCHANGED orderVars
  /\ UNCHANGED authVars
  /\ UNCHANGED listed
  /\ UNCHANGED browser

\* ---------------------------------------------------------- cancelBooking
\* first await: Booking.findById and the checks on what it returned
CancelBookingFind(id, requester) ==
  /\ breq.pc = "idle"
  /\ IF id \notin 1..Len(bookings)
       THEN /\ resp' = "404 Booking not found"
            /\ calls' = "none"
            /\ breq' = breq
       ELSE IF NotClientNorAdmin(bookings[id], requester)
       THEN /\ resp' = "401 not authorized to cancel this booking"
            /\ calls' = "none"
            /\ breq' = breq
       ELSE IF bookings[id].status = "completed"
       THEN /\ resp' = "400 Cannot cancel a completed booking"
            /\ calls' = "none"
            /\ breq' = breq
       ELSE /\ breq' = [IdleBreq EXCEPT !.pc = "save", !.id = id,
                                        !.user = requester]
            /\ UNCHANGED <<resp, calls>>
  /\ UNCHANGED <<bookings, cancellations, calendlyKey>>
  /\ UNCHANGED orderVars
  /\ UNCHANGED authVars
  /\ UNCHANGED listed
  /\ UNCHANGED browser

\* the calendar is told when the booking has an event id and the key is set
NeedsCalendarCall(booking, key) == booking.calendlyEventId # NoEvent /\ key

\* second await: booking.save() writes the status, the one modified path;
\* without a calendar call the answer follows at once
CancelBookingSave ==
  /\ breq.pc = "save"
  /\ bookings' = [bookings EXCEPT ![breq.id].status = "cancelled"]
  /\ IF NeedsCalendarCall(bookings[breq.id], calendlyKey)
       THEN /\ breq' = [breq EXCEPT !.pc = "call"]
            /\ UNCHANGED <<resp, calls>>
       ELSE /\ breq' = IdleBreq
            /\ resp' = "200"
            /\ calls' = "none"
  /\ UNCHANGED <<cancellations, calendlyKey>>
  /\ UNCHANGED orderVars
  /\ UNCHANGED authVars
  /\ UNCHANGED listed
  /\ UNCHANGED browser

\* third await: axios.post of the cancellation, which succeeds or throws,
\* and then the answer
CancelBookingCall(ok) ==
  /\ breq.pc = "call"
  /\ LET e == bookings[breq.id].calendlyEventId
     IN /\ cancellations[e] < MaxCalls
        /\ cancellations' = [cancellations EXCEPT ![e] = @ + 1]
  /\ calls' = IF ok THEN "calendly" ELSE "calendly failed"
  /\ resp' = CancelAnswer(ok)
  /\ breq' = IdleBreq
  /\ UNCHANGED <<bookings, calendlyKey>>
  /\ UNCHANGED orderVars
  /\ UNCHANGED authVars
  /\ UNCHANGED listed
  /\ UNCHANGED browser

\* --------------------------------------------------- handleCalendlyWebhook
\* the bookings Booking.findOne({calendlyEventId: uuid}) may return: no sort
\* is given, so which of several matches is returned is up to the store
FoundByEvent(uuid) ==
  {i \in 1..Len(bookings) : bookings[i].calendlyEventId = uuid}

\* no signature is verified; invitee is the account User.findOne returns for
\* the invitee email
HandleCalendlyWebhook(event, invitee, name, location, uuid) ==
  /\ IF event = "invitee.created" /\ invitee # NoUser
       THEN /\ Len(bookings) < MaxBookings
            /\ LET doc == BookingDoc(invitee, name,
                                     IF location = "undefined"
                                       THEN "To be determined" ELSE location,
                                     uuid)
               IN IF ValidBooking(doc)
                    THEN /\ bookings' = Append(bookings, doc)
                         /\ resp' = "200 success"
                    ELSE /\ bookings' = bookings
                         /\ resp' = "error"
       ELSE IF event = "invitee.canceled" /\ FoundByEvent(uuid) # {}
       THEN /\ \E i \in FoundByEvent(uuid) :
                 bookings' = [bookings EXCEPT ![i].status = "cancelled"]
            /\ resp' = "200 success"
       ELSE /\ bookings' = bookings
            /\ resp' = "200 success"
  /\ calls' = "none"
  /\ UNCHANGED <<breq, cancellations, calendlyKey>>
  /\ UNCHANGED orderVars
  /\ UNCHANGED authVars
  /\ UNCHANGED listed
  /\ UNCHANGED browser

\* The booking handlers, with one updateBooking or cancelBooking request
\* between its awaits while the others run.
\* the bodies the booking specification sends
BookBodies ==
  [sessionType : {"undefined", "portrait", "picnic"}, location : {"studio"},
   rest : {"given"}, calendlyEventId : EventIds \cup {NoEvent}]
BookEdits ==
  [sessionType : {"wedding"}, location : {"undefined"},
   date : {"undefined"}, notes : {"undefined"}]

NextBook ==
  \/ \E b \in BookBodies : CreateBooking("ann", b)
  \/ \E id \in BookingIds, st \in BookingStatusInputs :
       UpdateBookingStatus(id, "root", st)
  \/ \E id \in BookingIds, u \in {"root", "bob"}, ph \in PhotographerIds :
       AssignPhotographer(id, u, ph)
  \/ \E id \in BookingIds, u \in {"ann", "root"}, e \in BookEdits :
       UpdateBookingFind(id, u, e)
  \/ UpdateBookingWrite
  \/ \E id \in BookingIds, u \in {"ann", "root"} : CancelBookingFind(id, u)
  \/ CancelBookingSave
  \/ \E ok \in BOOLEAN : CancelBookingCall(ok)
  \/ \E ev \in CalendlyEvents, u \in {"ann", NoUser}, n \in EventTypeNames,
        e \in EventIds :
       HandleCalendlyWebhook(ev, u, n, "studio", e)

InitBook ==
  /\ products = [p \in ProductIds |->
                   [name |-> "print", price |-> 500, stock |-> 1]]
  /\ seeded = products
  /\ orders = <<>>
  /\ req = [r \in Reqs |-> IdleReq]
  /\ resp = NoResp
  /\ calls = "none"
  /\ bookings = <<>>
  /\ breq = IdleBreq
  /\ cancellations = [e \in EventIds |-> 0]
  /\ calendlyKey = TRUE
  /\ NoAccounts

SpecBook == InitBook /\ [][NextBook]_vars

\* The handlers that create bookings or write a field other than the status,
\* with every photographer id an admin or a user may send.
NextAssign ==
  \/ \E b \in BookBodies : CreateBooking("ann", b)
  \/ \E u \in {"ann", NoUser}, n \in EventTypeNames, e \in EventIds :
       HandleCalendlyWebhook("invitee.created", u, n, "studio", e)
  \/ \E id \in BookingIds, u \in {"root", "bob"}, ph \in PhotographerIds :
       AssignPhotographer(id, u, ph)
  \/ \E id \in BookingIds, st \in BookingStatuses :
       UpdateBookingStatus(id, "root", st)
  \/ \E id \in BookingIds, u \in {"ann", "root"}, e \in BookEdits :
       UpdateBookingFind(id, u, e)
  \/ UpdateBookingWrite

SpecAssign == InitBook /\ [][NextAssign]_vars

\* ========================================================== read handlers
DefaultLimit == 10                   \* the page size when the query gives none
PageInputs == 0..2                   \* 0: no page in the query
LimitInputs == 0..2                  \* 0: no limit in the query

\* parseInt(req.query.page, 10) || 1
PageOf(page) == IF page = 0 THEN 1 ELSE page

\* parseInt(req.query.limit, 10) || 10
LimitOf(limit) == IF limit = 0 THEN DefaultLimit ELSE limit

\* the ids of the orders Order.find({user}) or, for an admin, Order.find()
\* matches
OrdersOf(requester) ==
  {i \in 1..Len(orders) :
     RoleOf(requester) = "admin" \/ orders[i].user = requester}

\* the ids of the bookings Booking.find({client}) or, for an admin,
\* Booking.find() matches
BookingsOf(requester) ==
  {i \in 1..Len(bookings) :
     RoleOf(requester) = "admin" \/ bookings[i].client = requester}

\* how many of the set are below i: the rank of an order under sort by
\* creation time, newest first, is the number of matches above it
Above(ids, i) == Cardinality({j \in ids : j > i})

\* the page skip(startIndex).limit(limit) cuts from the matches, newest first
PageOfOrders(ids, page, limit) ==
  {i \in ids : /\ Above(ids, i) >= (page - 1) * limit
               /\ Above(ids, i) < page * limit}

\* pagination.next is set when endIndex < total, and total is
\* countDocuments() of the collection, whatever the query matches
HasNext(matches, total, page, limit) == page * limit < total

\* pagination.prev is set when startIndex > 0
HasPrev(page, limit) == (page - 1) * limit > 0

\* ---------------------------------------------------------------- getOrders
GetOrders(requester, page, limit) ==
  /\ listed' = [to |-> requester, kind |-> "orders",
                ids |-> PageOfOrders(OrdersOf(requester), PageOf(page),
                                     LimitOf(limit)),
                next |-> HasNext(Cardinality(OrdersOf(requester)), Len(orders),
                                 PageOf(page), LimitOf(limit)),
                prev |-> HasPrev(PageOf(page), LimitOf(limit))]
  /\ resp' = "200"
  /\ calls' = "none"
  /\ UNCHANGED orderVars
  /\ UNCHANGED bookVars
  /\ UNCHANGED authVars
  /\ UNCHANGED browser

\* -------------------------------------------------------------- getMyOrders
GetMyOrders(requester) ==
  /\ listed' = [to |-> requester, kind |-> "orders",
                ids |-> {i \in 1..Len(orders) : orders[i].user = requester},
                next |-> FALSE, prev |-> FALSE]
  /\ resp' = "200"
  /\ calls' = "none"
  /\ UNCHANGED orderVars
  /\ UNCHANGED bookVars
  /\ UNCHANGED authVars
  /\ UNCHANGED browser

\* ----------------------------------------------------------------- getOrder
GetOrder(requester, id) ==
  /\ IF id \notin 1..Len(orders)
       THEN /\ resp' = "404 Order not found"
            /\ listed' = [NothingListed EXCEPT !.to = requester]
       ELSE IF orders[id].user # requester /\ RoleOf(requester) # "admin"
       THEN /\ resp' = "401 not authorized to view this order"
            /\ listed' = [NothingListed EXCEPT !.to = requester]
       ELSE /\ resp' = "200"
            /\ listed' = [to |-> requester, kind |-> "orders", ids |-> {id},
                          next |-> FALSE, prev |-> FALSE]
  /\ calls' = "none"
  /\ UNCHANGED orderVars
  /\ UNCHANGED bookVars
  /\ UNCHANGED authVars
  /\ UNCHANGED browser

\* how many documents the page at startIndex holds when the query matches n
PageSize(n, page, limit) ==
  IF n <= (page - 1) * limit THEN 0
  ELSE IF n - (page - 1) * limit < limit THEN n - (page - 1) * limit
  ELSE limit

\* -------------------------------------------------------------- getBookings
\* the bookings are sorted by date, which the documents of the model do not
\* carry: the page is any set of matches of the page's size
GetBookings(requester, page, limit) ==
  /\ \E ids \in SUBSET BookingsOf(requester) :
       /\ Cardinality(ids) = PageSize(Cardinality(BookingsOf(requester)),
                                      PageOf(page), LimitOf(limit))
       /\ listed' = [to |-> requester, kind |-> "bookings", ids |-> ids,
                     next |-> HasNext(Cardinality(BookingsOf(requester)),
                                      Len(bookings), PageOf(page),
                                      LimitOf(limit)),
                     prev |-> HasPrev(PageOf(page), LimitOf(limit))]
  /\ resp' = "200"
  /\ calls' = "none"
  /\ UNCHANGED orderVars
  /\ UNCHANGED bookVars
  /\ UNCHANGED authVars
  /\ UNCHANGED browser

\* ------------------------------------------------------------ getMyBookings
GetMyBookings(requester) ==
  /\ listed' = [to |-> requester, kind |-> "bookings",
                ids |-> {i \in 1..Len(bookings) :
                           bookings[i].client = requester},
                next |-> FALSE, prev |-> FALSE]
  /\ resp' = "200"
  /\ calls' = "none"
  /\ UNCHANGED orderVars
  /\ UNCHANGED bookVars
  /\ UNCHANGED authVars
  /\ UNCHANGED browser

\* may the requester read the booking: its client, its photographer or an
\* admin
MayViewAnyone(booking, requester) == TRUE
MayView(booking, requester) ==
  \/ booking.client = requester
  \/ booking.photographer = requester
  \/ RoleOf(requester) = "admin"

\* --------------------------------------------------------------- getBooking
GetBooking(requester, id) ==
  /\ IF id \notin 1..Len(bookings)
       THEN /\ resp' = "404 Booking not found"
            /\ listed' = [NothingListed EXCEPT !.to = requester]
       ELSE IF ~MayView(bookings[id], requester)
       THEN /\ resp' = "401 not authorized to view this booking"
            /\ listed' = [NothingListed EXCEPT !.to = requester]
       ELSE /\ resp' = "200"
            /\ listed' = [to |-> requester, kind |-> "bookings",
                          ids |-> {id}, next |-> FALSE, prev |-> FALSE]
  /\ calls' = "none"
  /\ UNCHANGED orderVars
  /\ UNCHANGED bookVars
  /\ UNCHANGED authVars
  /\ UNCHANGED browser

\* Two users place one order each and make bookings; every account reads
\* the listings, page by page, and single documents.
ReadItems == [product : ProductIds, quantity : {1}]

NextRead ==
  \/ \E r \in Reqs :
       Begin(r, Requester(r), [products |-> "some", shippingAddress |-> TRUE])
  \/ \E r \in Reqs, i \in ReadItems : FindProduct(r, i)
  \/ \E r \in Reqs : SaveProduct(r, FALSE)
  \/ \E r \in Reqs : CreateOrderDoc(r, 0)
  \/ \E u \in Users :
       CreateBooking(u, [sessionType |-> "portrait", location |-> "studio",
                         rest |-> "given", calendlyEventId |-> NoEvent])
  \/ \E u \in Accounts, p \in PageInputs, l \in LimitInputs : GetOrders(u, p, l)
  \/ \E u \in Accounts : GetMyOrders(u)
  \/ \E u \in Accounts, id \in OrderIds : GetOrder(u, id)
  \/ \E u \in Accounts, p \in PageInputs, l \in LimitInputs :
       GetBookings(u, p, l)
  \/ \E u \in Accounts : GetMyBookings(u)
  \/ \E u \in Accounts, id \in BookingIds : GetBooking(u, id)

SpecRead == InitBook /\ [][NextRead]_vars

\* ============================================ the admin routes, as mounted
\* what a request carries as token: nothing, a string jwt.verify refuses,
\* or the token sendTokenResponse signed for an account
Tokens == Accounts \cup {"none", "garbage"}

\* protect answers 401 when there is no token or jwt.verify throws
ProtectRejects(token) == token \in {"none", "garbage"}

AuthorizeRejectsNobody(token) == FALSE

\* authorize('admin') answers 403 when the role of req.user is not admin
AuthorizeRejects(token) == RoleOf(token) # "admin"

\* a middleware answered and the handler did not run
Refused(answer) ==
  /\ resp' = answer
  /\ calls' = "none"
  /\ UNCHANGED orderVars
  /\ UNCHANGED bookVars
  /\ UNCHANGED authVars
  /\ UNCHANGED listed
  /\ UNCHANGED browser

\* PUT /api/orders/:id/status: protect, authorize('admin'), updateOrderStatus
PutOrderStatus(token, id, status) ==
  IF ProtectRejects(token)
    THEN Refused("401 Not authorized to access this route")
    ELSE IF AuthorizeRejects(token)
    THEN Refused("403")
    ELSE UpdateOrderStatus(id, status)

\* PUT /api/bookings/:id/status: protect, authorize('admin'),
\* updateBookingStatus
PutBookingStatus(token, id, status) ==
  IF ProtectRejects(token)
    THEN Refused("401 Not authorized to access this route")
    ELSE IF AuthorizeRejects(token)
    THEN Refused("403")
    ELSE UpdateBookingStatus(id, token, status)

\* the statuses the requests of the route specification carry
GuardStatuses == {"cancelled", "missing"}

\* One order and the bookings of ann, and the two status routes called with
\* every token.
NextGuard ==
  \/ Begin(1, "ann", [products |-> "some", shippingAddress |-> TRUE])
  \/ FindProduct(1, [product |-> 1, quantity |-> 1])
  \/ SaveProduct(1, FALSE)
  \/ \E t \in BodyTotals : CreateOrderDoc(1, t)
  \/ \E e \in EventIds \cup {NoEvent} :
       CreateBooking("ann", [sessionType |-> "portrait", location |-> "studio",
                             rest |-> "given", calendlyEventId |-> e])
  \/ \E tk \in Tokens, id \in 1..2, st \in GuardStatuses :
       PutOrderStatus(tk, id, st)
  \/ \E tk \in Tokens, id \in 1..2, st \in GuardStatuses :
       PutBookingStatus(tk, id, st)

SpecGuard == InitBook /\ [][NextGuard]_vars

\* Anybody registers and logs in, with every body the routes accept.
NextAuth ==
  \/ \E b \in RegisterBodies : Register(b)
  \/ \E e \in EmailInputs, p \in PasswordInputs : Login(e, p)

SpecAuth == InitBook /\ [][NextAuth]_vars

\* The calendar webhook with every payload, next to bookings the clients
\* make themselves with valid bodies and the statuses an admin assigns.
NextHook ==
  \/ \E ev \in CalendlyEvents, u \in InviteeUsers, n \in EventTypeNames,
        l \in EventLocations, e \in EventIds :
       HandleCalendlyWebhook(ev, u, n, l, e)
  \/ \E u \in Users, e \in EventIds \cup {NoEvent} :
       CreateBooking(u, [sessionType |-> "wedding", location |-> "beach",
                         rest |-> "given", calendlyEventId |-> e])
  \/ \E id \in BookingIds, st \in BookingStatuses :
       UpdateBookingStatus(id, "root", st)

SpecHook == InitBook /\ [][NextHook]_vars

\* One booking that ann made, with or without a calendar event, and every
\* account editing and cancelling it while the admin moves its status; the
\* calendar key is configured or not.
NextCancel ==
  \/ \E id \in 1..2, st \in BookingStatuses : UpdateBookingStatus(id, "root", st)
  \/ \E id \in 1..2, u \in Accounts, e \in BookingEdits :
       UpdateBookingFind(id, u, e)
  \/ UpdateBookingWrite
  \/ \E id \in 1..2, u \in Accounts : CancelBookingFind(id, u)
  \/ CancelBookingSave
  \/ \E ok \in BOOLEAN : CancelBookingCall(ok)

InitCancel ==
  /\ products = [p \in ProductIds |->
                   [name |-> "print", price |-> 500, stock |-> 1]]
  /\ seeded = products
  /\ orders = <<>>
  /\ req = [r \in Reqs |-> IdleReq]
  /\ resp = NoResp
  /\ calls = "none"
  /\ \E e \in EventIds \cup {NoEvent} :
       bookings = <<BookingDoc("ann", "portrait", "studio", e)>>
  /\ breq = IdleBreq
  /\ cancellations = [e \in EventIds |-> 0]
  /\ calendlyKey \in BOOLEAN
  /\ NoAccounts

SpecCancel == InitCancel /\ [][NextCancel]_vars

\* The same booking with every account cancelling and editing it: no handler
\* that assigns a status other than cancelled runs.
NextRecancel ==
  \/ \E id \in 1..2, u \in Accounts : CancelBookingFind(id, u)
  \/ CancelBookingSave
  \/ \E ok \in BOOLEAN : CancelBookingCall(ok)
  \/ \E id \in 1..2, u \in Accounts, e \in BookingEdits :
       UpdateBookingFind(id, u, e)
  \/ UpdateBookingWrite

SpecRecancel == InitCancel /\ [][NextRecancel]_vars

\* ======================================================= the browser client
\* The cart holds one product; a cart is the quantity of it, 0 when empty.
serverVars == <<products, seeded, orders, req, resp, calls, bookings, breq,
                cancellations, calendlyKey, users, issued, listed>>

\* initializeCart: a closure with its own cart, read from localStorage, that
\* binds its own listener to the checkout button; updateCartUI then disables
\* the button when that cart is empty
InitializedCart(b) ==
  [b EXCEPT !.carts = Append(@, b.stored), !.disabled = (b.stored = 0)]

\* DOMContentLoaded: initializeUI runs initializeCart
DomContentLoaded ==
  /\ browser.carts = <<>>
  /\ browser' = InitializedCart(browser)
  /\ UNCHANGED serverVars

\* loadFeaturedProducts after its await: when the API answered with products
\* the grid is rebuilt and initializeCart runs again
LoadFeaturedProducts(answer) ==
  /\ Len(browser.carts) = 1
  /\ ~browser.loaded
  /\ browser' = IF answer = "products"
                  THEN [InitializedCart(browser) EXCEPT !.loaded = TRUE]
                  ELSE [browser EXCEPT !.loaded = TRUE]
  /\ UNCHANGED serverVars

\* checkAuthStatus after its await: a token that api.getProfile refuses is
\* removed from localStorage
CheckAuthStatus(ok) ==
  /\ browser.carts # <<>>
  /\ ~browser.checked
  /\ browser' = [browser EXCEPT !.checked = TRUE, !.token = @ /\ ok]
  /\ UNCHANGED serverVars

\* a click on an add-to-cart button of the grid: the buttons in the grid were
\* bound by the latest initializeCart
AddToCart ==
  /\ browser.carts # <<>>
  /\ browser.carts[Len(browser.carts)] < MaxQty
  /\ browser' = [browser EXCEPT
                   !.carts[Len(browser.carts)] = @ + 1,
                   !.stored = browser.carts[Len(browser.carts)] + 1,
                   !.disabled = FALSE]
  /\ UNCHANGED serverVars

\* window.removeFromCart, the one the latest initializeCart assigned
RemoveFromCart ==
  /\ browser.carts # <<>>
  /\ browser.carts[Len(browser.carts)] > 0
  /\ browser' = [browser EXCEPT
                   !.carts[Len(browser.carts)] = 0,
                   !.stored = 0,
                   !.disabled = TRUE]
  /\ UNCHANGED serverVars

\* the closures whose checkout listener goes as far as api.createOrder
Senders(b) ==
  {c \in 1..Len(b.carts) : b.carts[c] > 0 /\ b.token}

\* one click on the checkout button, which is not disabled: every listener
\* bound to it runs up to its first await
ClickCheckout ==
  /\ browser.carts # <<>>
  /\ ~browser.disabled
  /\ browser' = [browser EXCEPT
                   !.sent = Cardinality(Senders(browser)),
                   !.waiting = @ \cup Senders(browser)]
  /\ UNCHANGED serverVars

\* the answers to createOrder and createPaymentIntent arrive: the listener
\* empties its cart, or alerts the failure
OrderAnswered(c, ok) ==
  /\ c \in browser.waiting
  /\ browser' = IF ok
                  THEN [browser EXCEPT !.carts[c] = 0, !.stored = 0,
                                       !.disabled = TRUE,
                                       !.waiting = @ \ {c}]
                  ELSE [browser EXCEPT !.waiting = @ \ {c}]
  /\ UNCHANGED serverVars

InitClient ==
  /\ products = [p \in ProductIds |->
                   [name |-> "print", price |-> 500, stock |-> 1]]
  /\ seeded = products
  /\ orders = <<>>
  /\ req = [r \in Reqs |-> IdleReq]
  /\ resp = NoResp
  /\ calls = "none"
  /\ bookings = <<>>
  /\ breq = IdleBreq
  /\ cancellations = [e \in EventIds |-> 0]
  /\ calendlyKey = TRUE
  /\ users = <<>>
  /\ issued = "nobody"
  /\ listed = NothingListed
  /\ \E st \in 0..MaxQty, t \in BOOLEAN :
       browser = [NoPage EXCEPT !.stored = st, !.token = t]

NextClient ==
  \/ DomContentLoaded
  \/ \E a \in {"products", "none", "fail"} : LoadFeaturedProducts(a)
  \/ \E ok \in BOOLEAN : CheckAuthStatus(ok)
  \/ AddToCart
  \/ RemoveFromCart
  \/ ClickCheckout
  \/ \E c \in 1..2, ok \in BOOLEAN : OrderAnswered(c, ok)

SpecClient == InitClient /\ [][NextClient]_vars

\* One booking of ann with a calendar event; she and the admin edit it with
\* every body, which may carry the keys updateBooking does not read (status,
\* client, photographer, payment, calendlyEventId), while the admin confirms
\* the booking and puts it back to pending.
FullEdits ==
  [sessionType : {"undefined", "wedding", "picnic"},
   location : {"undefined", "beach"}, date : DateInputs, notes : NotesInputs,
   others : {"undefined", "given"}]

NextEdit ==
  \/ \E u \in {"ann", "root"}, e \in FullEdits : UpdateBookingFind(1, u, e)
  \/ UpdateBookingWrite
  \/ \E st \in {"pending", "confirmed"} : UpdateBookingStatus(1, "root", st)

InitEdit == InitCancel /\ calendlyKey /\ bookings[1].calendlyEventId \in EventIds

SpecEdit == InitEdit /\ [][NextEdit]_vars

\* -------------------------------------------------------- specifications
\* concurrent createOrder requests on a fixed catalogue
Next ==
  \/ \E r \in Reqs, b \in Bodies : Begin(r, Requester(r), b)
  \/ \E r \in Reqs, i \in Items : FindProduct(r, i)
  \/ \E r \in Reqs, m \in BOOLEAN : SaveProduct(r, m)
  \/ \E r \in Reqs, t \in BodyTotals : CreateOrderDoc(r, t)

Spec == Init /\ [][Next]_vars

\* the life of the orders: every handler of the order routes, and product edits
LifeItems == [product : {1}, quantity : {2}]
LifeBodies == [products : {"some"}, shippingAddress : {TRUE}]

NextLife ==
  \/ \E r \in Reqs, b \in LifeBodies : Begin(r, Requester(r), b)
  \/ \E r \in Reqs, i \in LifeItems : FindProduct(r, i)
  \/ \E r \in Reqs : SaveProduct(r, FALSE)
  \/ \E r \in Reqs, t \in BodyTotals : CreateOrderDoc(r, t)
  \/ \E id \in OrderIds, s \in StatusInputs : UpdateOrderStatus(id, s)
  \/ \E id \in OrderIds, u \in Users, g \in {"pi_1", "fail"} : CreatePaymentIntent(id, u, g)
  \/ \E v \in BOOLEAN, t \in EventTypes, id \in OrderIds : HandleStripeWebhook(v, t, id)
  \/ \E p \in {0, 600} : UpdateProduct(1, "canvas", p)

InitLife == Init /\ products[2].stock = 1

SpecLife == InitLife /\ [][NextLife]_vars

\* The payment handlers over one order of ann's: every account, the admin
\* included, asks for a payment intent, and the webhook arrives signed or not.
NextPay ==
  \/ Begin(1, "ann", [products |-> "some", shippingAddress |-> TRUE])
  \/ \E i \in LifeItems : FindProduct(1, i)
  \/ SaveProduct(1, FALSE)
  \/ \E t \in BodyTotals : CreateOrderDoc(1, t)
  \/ \E id \in 0..2, s \in StatusInputs : UpdateOrderStatus(id, s)
  \/ \E id \in 0..2, u \in Accounts, g \in GatewayAnswers :
       CreatePaymentIntent(id, u, g)
  \/ \E v \in BOOLEAN, t \in EventTypes, id \in 0..2 :
       HandleStripeWebhook(v, t, id)

SpecPay == Init /\ [][NextPay]_vars

\* ------------------------------------------------------------ properties
OthersIdle(r) == \A o \in Reqs \ {r} : req[o].pc = "idle"

\* request r has come to its end having asked for quantity q of product p alone
AskedOnly(r, p, q) ==
  /\ req[r].pc = "done"
  /\ ~RejectedBody(req[r].body)
  /\ req[r].item = [product |-> p, quantity |-> q]
  /\ \/ req[r].code = "201" /\ Len(req[r].orderItems) = 1
     \/ req[r].code = "400" /\ req[r].orderItems = <<>>

\* C1: of two concurrent createOrder requests for quantity 1 of a product
\* with stock 1, exactly one succeeds, the other fails for insufficient
\* stock, and the stock ends at 0
C1_ExactlyOneSucceeds ==
  \A p \in ProductIds : \A r1, r2 \in Reqs :
    ( /\ r1 # r2
      /\ seeded[p].stock = 1
      /\ AskedOnly(r1, p, 1)
      /\ AskedOnly(r2, p, 1)
      /\ \A o \in Reqs \ {r1, r2} : req[o].pc = "idle" )
    => /\ {req[r1].code, req[r2].code} = {"201", "400"}
       /\ products[p].stock = 0

\* C2: the stock of every product is at least 0 in every reachable state
C2_StockNeverNegative == \A p \in ProductIds : products[p].stock >= 0

C2_Witness ==
  \E p \in ProductIds :
    /\ products[p].stock = 0
    /\ seeded[p].stock = 5
    /\ \A r \in Reqs : req[r].pc = "done" /\ req[r].code = "201"

\* C3: every persisted order has subtotal = sum of price x quantity over its
\* lines, tax = 10% of the subtotal, shipping = 0 over 100 currency units and
\* 10 otherwise, total = subtotal + tax + shipping
C3_Amounts ==
  \A i \in 1..Len(orders) :
    /\ orders[i].subtotal = LinesSum(orders[i].products)
    /\ 10 * orders[i].tax = orders[i].subtotal
    /\ orders[i].shipping = (IF orders[i].subtotal > 1000 THEN 0 ELSE 100)
    /\ orders[i].total = orders[i].subtotal + orders[i].tax + orders[i].shipping

C3_Witness ==
  \E i, j \in 1..Len(orders) :
    /\ Len(orders[i].products) = 2
    /\ orders[i].subtotal > 1000
    /\ orders[j].subtotal < 1000

\* the one request r that ran ordered 2 of a product priced 50 with stock 5
BoundaryOrder(r, p) ==
  /\ req[r].pc = "done"
  /\ req[r].code = "201"
  /\ OthersIdle(r)
  /\ seeded[p].stock = 5
  /\ Len(req[r].orderItems) = 1
  /\ req[r].orderItems[1].product = p
  /\ req[r].orderItems[1].price = 500
  /\ req[r].orderItems[1].quantity = 2

\* C4 as stated: 2 of a product priced 50 with stock 5 gives subtotal 100,
\* tax 10, shipping 0, total 110 and stock 3
C4_AsStated ==
  \A r \in Reqs : \A p \in ProductIds :
    BoundaryOrder(r, p) =>
      /\ orders[req[r].order].subtotal = 1000
      /\ orders[req[r].order].tax = 100
      /\ orders[req[r].order].shipping = 0
      /\ orders[req[r].order].total = 1100
      /\ products[p].stock = 3

\* C4 amended: 2 of a product priced 50 with stock 5 gives subtotal 100,
\* tax 10, shipping 10 (100 is not over 100), total 120 and stock 3
C4_Boundary ==
  \A r \in Reqs : \A p \in ProductIds :
    BoundaryOrder(r, p) =>
      /\ orders[req[r].order].subtotal = 1000
      /\ orders[req[r].order].tax = 100
      /\ orders[req[r].order].shipping = 100
      /\ orders[req[r].order].total = 1200
      /\ products[p].stock = 3

C4_Witness == \E r \in Reqs : \E p \in ProductIds : BoundaryOrder(r, p)

\* C5: a line pushed by createOrder carries the name and the price the product
\* has when it is read, the order is created with the lines pushed, and no
\* step changes lines, subtotal, tax, shipping or total of an existing order
C5_Snapshot ==
  [][ /\ \A i \in 1..Len(orders) :
           /\ i <= Len(orders')
           /\ orders'[i].products = orders[i].products
           /\ orders'[i].subtotal = orders[i].subtotal
           /\ orders'[i].tax = orders[i].tax
           /\ orders'[i].shipping = orders[i].shipping
           /\ orders'[i].total = orders[i].total
      /\ \A r \in Reqs :
           \/ req'[r].orderItems = req[r].orderItems
           \/ /\ Len(req'[r].orderItems) = Len(req[r].orderItems) + 1
              /\ SubSeq(req'[r].orderItems, 1, Len(req[r].orderItems)) = req[r].orderItems
              /\ LET line == req'[r].orderItems[Len(req'[r].orderItems)]
                 IN /\ line.product \in ProductIds
                    /\ line.name = products[line.product].name
                    /\ line.price = products[line.product].price
      /\ \A r \in Reqs :
           req'[r].order # req[r].order =>
             /\ req'[r].order = Len(orders')
             /\ Len(orders') = Len(orders) + 1
             /\ orders'[req'[r].order].products = req[r].orderItems
    ]_vars

\* an order paid and shipped whose line differs from the product as it is now
C5_Witness ==
  \E i \in 1..Len(orders) :
    /\ orders[i].status = "shipped"
    /\ orders[i].paymentInfo.status = "completed"
    /\ orders[i].paymentInfo.transactionId # "none"
    /\ orders[i].products[1].price # products[orders[i].products[1].product].price
    /\ orders[i].products[1].name # products[orders[i].products[1].product].name
    /\ Len(orders) > i

\* C6: when createOrder fails on a line, the stock written for the lines
\* before it stays written and no order is persisted
C6_PartialDecrementKept ==
  /\ Len(orders) = Cardinality({r \in Reqs : req[r].code = "201"})
  /\ \A r \in Reqs :
       /\ req[r].code # "201" => req[r].order = 0
       /\ ( /\ req[r].pc = "done"
            /\ req[r].code \in {"400", "404"}
            /\ OthersIdle(r) )
          => /\ orders = <<>>
             /\ \A p \in ProductIds :
                  products[p].stock = seeded[p].stock - QuantityOn(req[r].orderItems, p)

\* a request that failed on its second line, after a decrement of the first
C6_Witness ==
  \E r \in Reqs :
    /\ req[r].pc = "done"
    /\ req[r].code = "400"
    /\ OthersIdle(r)
    /\ Len(req[r].orderItems) = 1
    /\ req[r].orderItems[1].quantity = 1
    /\ products[req[r].orderItems[1].product].stock
         = seeded[req[r].orderItems[1].product].stock - 1

\* C7: a createOrder whose item list is missing or empty, or that has no
\* shipping address, answers 400 at once; no stock changes, no order is made
C7_RejectedUpFront ==
  [][ \A r \in Reqs :
        ( /\ req[r].pc = "idle"
          /\ req'[r].pc # "idle"
          /\ \/ req'[r].body.products \in {"missing", "empty"}
             \/ ~req'[r].body.shippingAddress )
        => /\ req'[r].pc = "done"
           /\ req'[r].code = "400"
           /\ req'[r].orderItems = <<>>
           /\ products' = products
           /\ orders' = orders
    ]_vars

C7_Witness ==
  \E r1, r2 \in Reqs :
    /\ req[r1].pc = "done" /\ req[r1].code = "400"
    /\ req[r1].body = [products |-> "some", shippingAddress |-> FALSE]
    /\ req[r2].pc = "done" /\ req[r2].code = "400"
    /\ req[r2].body = [products |-> "empty", shippingAddress |-> TRUE]
    /\ products = seeded
    /\ orders = <<>>

\* the transitions of the order state machine
OrderTransitions ==
  { <<"pending", "processing">>, <<"processing", "shipped">>,
    <<"shipped", "delivered">>, <<"pending", "cancelled">>,
    <<"processing", "cancelled">> }

\* C8: the status of an order changes only along pending -> processing ->
\* shipped -> delivered, or from pending or processing to cancelled
C8_StatusMachine ==
  [][ \A i \in 1..Len(orders) :
        orders'[i].status # orders[i].status =>
          <<orders[i].status, orders'[i].status>> \in OrderTransitions
    ]_vars

\* C9: the status of an order becomes processing only by a step of
\* handleStripeWebhook for a verified payment_intent.succeeded event
C9_ProcessingOnlyByWebhook ==
  [][ \A i \in 1..Len(orders) :
        (orders'[i].status = "processing" /\ orders[i].status # "processing") =>
          HandleStripeWebhook(TRUE, "payment_intent.succeeded", i)
    ]_vars

\* C10: a verified payment_intent.succeeded event for an existing pending
\* order leaves it processing and paid and changes no other order; a verified
\* event for no order, or of another type, is answered 200 and changes no order
C10_WebhookEffect ==
  [][ \A t \in EventTypes : \A id \in OrderIds :
        HandleStripeWebhook(TRUE, t, id) =>
          /\ resp' = "200 received"
          /\ Len(orders') = Len(orders)
          /\ \A j \in 1..Len(orders) :
               IF j = id /\ t = "payment_intent.succeeded"
                 THEN orders[j].status = "pending" =>
                        /\ orders'[j].status = "processing"
                        /\ orders'[j].paymentInfo.status = "completed"
                 ELSE orders'[j] = orders[j]
    ]_vars

\* one order paid through the webhook, the other still as created
C10_Witness ==
  \E i, j \in 1..Len(orders) :
    /\ orders[i].status = "processing"
    /\ orders[i].paymentInfo.status = "completed"
    /\ orders[j].status = "pending"
    /\ orders[j].paymentInfo.status = "pending"
    /\ resp = "200 received"

\* C11: a payment webhook whose signature does not verify is answered 400
\* and changes no order, whatever its payload says
C11_UnverifiedRejected ==
  [][ \A t \in EventTypes : \A id \in OrderIds :
        HandleStripeWebhook(FALSE, t, id) =>
          /\ resp' = "400 Webhook Error"
          /\ orders' = orders
    ]_vars

\* an unverified event was answered while a pending order could be named
C11_Witness ==
  /\ resp = "400 Webhook Error"
  /\ \E i \in 1..Len(orders) :
       orders[i].status = "pending" /\ orders[i].paymentInfo.status = "pending"

\* C12: createPaymentIntent by anyone but the order's user, an admin
\* included, answers 401, does not call the gateway and changes no order
C12_OnlyOwnerPays ==
  [][ \A id \in 1..Len(orders) : \A u \in Accounts : \A g \in GatewayAnswers :
        (u # orders[id].user /\ CreatePaymentIntent(id, u, g)) =>
          /\ resp' = "401"
          /\ calls' = "none"
          /\ orders' = orders
    ]_vars

C12_Witness ==
  /\ resp = "401"
  /\ calls = "none"
  /\ \E i \in 1..Len(orders) : orders[i].paymentInfo.transactionId = "none"

\* the moves of a booking's status the state machine allows
BookingTransitions ==
  {<<"pending", "confirmed">>, <<"confirmed", "completed">>,
   <<"pending", "cancelled">>, <<"confirmed", "cancelled">>}

\* C13: over any sequence of booking handlers the status of a booking moves
\* only pending->confirmed, confirmed->completed, pending->cancelled or
\* confirmed->cancelled
C13_BookingStatusMachine ==
  [][ \A i \in 1..Len(bookings) :
        \/ bookings'[i].status = bookings[i].status
        \/ <<bookings[i].status, bookings'[i].status>> \in BookingTransitions
    ]_vars

\* C14: no handler takes a completed booking to cancelled
C14_CompletedNeverCancelled ==
  [][ \A i \in 1..Len(bookings) :
        bookings[i].status = "completed" => bookings'[i].status # "cancelled"
    ]_vars

\* updateBooking by the non-admin client of a confirmed or completed
\* booking is answered with the given error and writes nothing, then or later
OwnerEditRejected(answer) ==
  \A id \in 1..Len(bookings) : \A u \in Users : \A e \in BookingEdits :
    ( /\ bookings[id].client = u
      /\ bookings[id].status \in {"confirmed", "completed"}
      /\ UpdateBookingFind(id, u, e) )
    => /\ resp' = answer
       /\ bookings' = bookings
       /\ breq' = breq

\* updateBooking by an admin passes the checks whatever the status is, and
\* its write applies the fields of the body that the schema accepts, and
\* nothing else
AdminEditApplied ==
  /\ \A id \in 1..Len(bookings) : \A u \in Admins : \A e \in BookingEdits :
       UpdateBookingFind(id, u, e) =>
         /\ breq'.pc = "update"
         /\ breq'.id = id
         /\ breq'.sessionType = e.sessionType
         /\ breq'.location = e.location
  /\ ( /\ UpdateBookingWrite
       /\ breq.user \in Admins
       /\ breq.sessionType \in SessionTypeEnum \cup {"undefined"} )
     => /\ resp' = "200"
        /\ bookings' = [bookings EXCEPT ![breq.id] =
             [@ EXCEPT
                !.sessionType = IF breq.sessionType = "undefined"
                                  THEN @ ELSE breq.sessionType,
                !.location = IF breq.location = "undefined"
                               THEN @ ELSE breq.location]]

C16_StrangerRejected ==
  [][ \A id \in 1..Len(bookings) : \A u \in Users :
        bookings[id].client # u =>
          /\ \A e \in BookingEdits :
               UpdateBookingFind(id, u, e) =>
                 /\ resp' = "401 not authorized to update this booking"
                 /\ bookings' = bookings
                 /\ breq' = breq
                 /\ calls' = "none"
                 /\ cancellations' = cancellations
          /\ CancelBookingFind(id, u) =>
               /\ resp' = "401 not authorized to cancel this booking"
               /\ bookings' = bookings
               /\ breq' = breq
               /\ calls' = "none"
               /\ cancellations' = cancellations
    ]_vars

\* a stranger's cancellation of a booking with a calendar event was rejected
C16_Witness ==
  /\ resp = "401 not authorized to cancel this booking"
  /\ calls = "none"
  /\ calendlyKey
  /\ bookings[1].calendlyEventId \in EventIds
  /\ bookings[1].status = "confirmed"
  /\ cancellations = [e \in EventIds |-> 0]

\* C17: over any sequence of cancelBooking calls on a booking the calendar
\* gets at most one cancellation call for its event
C17_CancelOnce == \A e \in EventIds : cancellations[e] <= 1

\* C18: when the calendar call of cancelBooking fails the request is still
\* answered 200 and no booking is written back; the call is made only by a
\* request that has persisted the cancelled status, for a booking that has
\* a calendar event
C18_BestEffortCall ==
  [][ /\ CancelBookingCall(FALSE) =>
           /\ resp' = "200"
           /\ bookings' = bookings
      /\ (breq'.pc = "call" /\ breq.pc # "call") =>
           /\ breq.pc = "save"
           /\ bookings'[breq'.id].status = "cancelled"
           /\ bookings'[breq'.id].calendlyEventId \in EventIds
      /\ cancellations' # cancellations =>
           /\ breq.pc = "call"
           /\ bookings[breq.id].calendlyEventId \in EventIds
           /\ calendlyKey
    ]_vars

\* the calendar call failed and the booking is cancelled, answered 200
C18_Witness ==
  /\ calls = "calendly failed"
  /\ resp = "200"
  /\ bookings[1].status = "cancelled"
  /\ cancellations[bookings[1].calendlyEventId] = 1

\* C19: assignPhotographer answers 404 and leaves the bookings unchanged
\* when the photographer id names nobody or an account that is not an admin;
\* a photographer, once set, is an admin; assignPhotographer never changes
\* a status
C19_PhotographerIsAdmin ==
  [][ /\ \A i \in 1..Len(bookings') :
           bookings'[i].photographer # NoUser =>
             RoleOf(bookings'[i].photographer) = "admin"
      /\ \A id \in BookingIds : \A ph \in PhotographerIds \ {"missing"} :
           /\ (ph = NoUser \/ RoleOf(ph) # "admin") =>
                (AssignPhotographer(id, "root", ph) =>
                   /\ resp' = "404 Photographer not found"
                   /\ bookings' = bookings)
           /\ \A u \in {"root", "bob"} :
                AssignPhotographer(id, u, ph) =>
                  /\ Len(bookings') = Len(bookings)
                  /\ \A i \in 1..Len(bookings) :
                       bookings'[i].status = bookings[i].status
    ]_vars

\* a user was refused as photographer of a confirmed booking that has none
C19_Witness ==
  /\ resp = "404 Photographer not found"
  /\ Len(bookings) >= 1
  /\ bookings[1].status = "confirmed"
  /\ bookings[1].photographer = NoUser

\* C20: invitee.created for the email of a local user creates exactly one
\* booking, pending, with that user as client and the uuid of the event as
\* calendlyEventId; for an unknown email it creates none and is acknowledged;
\* invitee.canceled cancels the booking found by the uuid, and changes
\* nothing when none is found
C20_CalendarWebhook ==
  [][ \A n \in EventTypeNames : \A l \in EventLocations : \A e \in EventIds :
        /\ \A u \in Accounts :
             HandleCalendlyWebhook("invitee.created", u, n, l, e) =>
               /\ resp' = "200 success"
               /\ Len(bookings') = Len(bookings) + 1
               /\ SubSeq(bookings', 1, Len(bookings)) = bookings
               /\ bookings'[Len(bookings')].status = "pending"
               /\ bookings'[Len(bookings')].client = u
               /\ bookings'[Len(bookings')].calendlyEventId = e
        /\ HandleCalendlyWebhook("invitee.created", NoUser, n, l, e) =>
             /\ resp' = "200 success"
             /\ bookings' = bookings
        /\ HandleCalendlyWebhook("invitee.canceled", NoUser, n, l, e) =>
             /\ resp' = "200 success"
             /\ IF FoundByEvent(e) = {}
                  THEN bookings' = bookings
                  ELSE \E i \in FoundByEvent(e) :
                         bookings' = [bookings EXCEPT ![i].status = "cancelled"]
    ]_vars

\* C21: no sequence of register calls creates an admin: a body with role
\* admin yields a user with role user, and every user in the collection,
\* all of them made by register, has role user
C21_RegisterNeverAdmin ==
  [][ /\ \A i \in 1..Len(users') : users'[i].role = "user"
      /\ \A b \in RegisterBodies :
           (b.role = "admin" /\ Register(b) /\ users' # users) =>
             /\ Len(users') = Len(users) + 1
             /\ users'[Len(users')].role = "user"
             /\ users'[Len(users')].email = b.email
    ]_vars

\* register has created a user and answered 201 with that user's token
C21_Witness ==
  /\ Len(users) >= 1
  /\ resp = "201"
  /\ issued = users[Len(users)].email
  /\ users[Len(users)].role = "user"

\* C22: login answers the same, 401 "Invalid credentials" without a token,
\* when the email belongs to no user and when the password is wrong for an
\* existing user
C22_SameAnswer ==
  \A e1 \in EmailInputs \ {"undefined"} :
    \A e2 \in Emails :
      \A p1 \in PasswordInputs \ {"undefined"} :
        \A p2 \in PasswordInputs \ {"undefined"} :
          ( /\ FoundByEmail(users, e1) = {}
            /\ \E i \in 1..Len(users) :
                 users[i].email = e2 /\ users[i].password # p2 )
          => /\ LoginAnswer(users, e1, p1) = LoginAnswer(users, e2, p2)
             /\ LoginAnswer(users, e1, p1).resp = "401 Invalid credentials"
             /\ LoginAnswer(users, e1, p1).token = "nobody"

\* a login was refused while one email is registered and the other is not
C22_Witness ==
  /\ Len(users) = 1
  /\ resp = "401 Invalid credentials"
  /\ issued = "nobody"

\* C23: on the two status routes a request with no token or an invalid one
\* is answered 401 and a request of an account that is not an admin 403,
\* and then no order and no booking changes
C23_AdminOnly ==
  [][ \A tk \in Tokens \ Admins :
        LET answer == IF tk \in {"none", "garbage"}
                        THEN "401 Not authorized to access this route"
                        ELSE "403"
        IN /\ \A id \in 1..2 : \A st \in GuardStatuses :
                PutOrderStatus(tk, id, st) =>
                  /\ resp' = answer
                  /\ orders' = orders
                  /\ bookings' = bookings
           /\ \A id \in 1..2 : \A st \in GuardStatuses :
                PutBookingStatus(tk, id, st) =>
                  /\ resp' = answer
                  /\ orders' = orders
                  /\ bookings' = bookings
    ]_vars

\* a user who is no admin was refused while an order and a booking exist
C23_Witness ==
  /\ resp = "403"
  /\ Len(orders) = 1
  /\ orders[1].status = "pending"
  /\ Len(bookings) >= 1
  /\ bookings[1].status = "pending"

\* C24: in getOrders and getBookings, pagination.next is present exactly when
\* documents matching the request's query lie beyond the current page, and
\* pagination.prev exactly when the page is above 1
C24_PaginationLinks ==
  [][\A u \in Accounts, p \in PageInputs, l \in LimitInputs :
       /\ GetOrders(u, p, l) =>
            /\ listed'.next =
                 (Cardinality(OrdersOf(u)) > PageOf(p) * LimitOf(l))
            /\ listed'.prev = (PageOf(p) > 1)
       /\ GetBookings(u, p, l) =>
            /\ listed'.next =
                 (Cardinality(BookingsOf(u)) > PageOf(p) * LimitOf(l))
            /\ listed'.prev = (PageOf(p) > 1)]_vars

\* C25: what a handler of the read routes sent to a user who is not an admin
\* holds only that user's orders, and only bookings of which the user is the
\* client or the photographer
C25_OwnDocumentsOnly ==
  RoleOf(listed.to) # "admin" =>
    /\ listed.kind = "orders" =>
         \A i \in listed.ids : orders[i].user = listed.to
    /\ listed.kind = "bookings" =>
         \A i \in listed.ids : \/ bookings[i].client = listed.to
                               \/ bookings[i].photographer = listed.to

\* ann was refused bob's booking, having both made one
C25_Witness ==
  /\ Len(bookings) = 2
  /\ bookings[1].client = "ann"
  /\ bookings[2].client = "bob"
  /\ Len(orders) = 2
  /\ listed = [NothingListed EXCEPT !.to = "ann"]
  /\ resp = "401 not authorized to view this booking"

\* C26: createOrder never increases the stock of a product: no product holds
\* more than it was seeded with, and after a lone request that carried a
\* quantity below 1 came to its end, rejected, every stock is as seeded
C26_NeverIncreasesStock ==
  /\ \A p \in ProductIds : products[p].stock <= seeded[p].stock
  /\ \A r \in Reqs :
       ( /\ req[r].pc = "done"
         /\ OthersIdle(r)
         /\ Len(req[r].orderItems) = 1
         /\ req[r].orderItems[1].quantity < 1 )
       => /\ req[r].code # "201"
          /\ products = seeded

\* C27: once the paymentInfo.status of an order is completed, no step of
\* createPaymentIntent or of the payment webhook sets it back to pending
C27_PaidStaysPaid ==
  [][ \A i \in 1..Len(orders) :
        orders[i].paymentInfo.status = "completed" =>
          orders'[i].paymentInfo.status # "pending"
    ]_vars

\* C28: once the calendar webhook has handled invitee.canceled for an event,
\* every booking that carries the id of that event is cancelled
C28_EveryBookingOfEventCancelled ==
  [][ \A u \in InviteeUsers : \A n \in EventTypeNames :
      \A l \in EventLocations : \A e \in EventIds :
        HandleCalendlyWebhook("invitee.canceled", u, n, l, e) =>
          \A i \in 1..Len(bookings') :
            bookings'[i].calendlyEventId = e =>
              bookings'[i].status = "cancelled"
    ]_vars

C30_OneRequestPerClick == browser.sent <= 1

TypeOK ==
  /\ \A p \in ProductIds : products[p].stock \in Int
  /\ Len(orders) <= NReq
  /\ Len(bookings) <= MaxBookings
====
